---- MODULE Spec2Model ----
(***************************************************************************)
(* Surfbrew API (src/main.py): the availability / booking engine.          *)
(*                                                                         *)
(* The document store is modelled by the collections the handlers use      *)
(* (session, booking, user).  A create_booking request is three store      *)
(* operations (find_one on session, find on booking, insert into booking)  *)
(* and is therefore three steps; cancel, attend and create_session do one  *)
(* write each and are one step.                                            *)
(***************************************************************************)
EXTENDS Integers, Sequences, FiniteSets, TLC

\* ------------------------------------------------------------- bounds
NumReqs == 2        \* create_booking requests in one behaviour
MaxSessions == 1    \* session documents in the store
MaxCap == 2         \* largest capacity a session is created with
MaxClock == 1       \* values of the millisecond clock: 0..MaxClock
MaxLen == 2         \* stored bookings in the availability specification
LifeLen == 1        \* stored bookings in the lifecycle specification
NumPair == 2        \* sessions in the independence specification

VARIABLES
    db,         \* TRUE when the store handle is configured (database.db is not None)
    user,       \* collection "user": email -> document (role, password_hash), or Absent
    token,      \* emails for which /auth/login has issued a signed token
    session,    \* collection "session": sequence of documents, _id = index
    booking,    \* collection "booking": sequence of documents, _id = index
    req,        \* the create_booking requests: position, payload, locals, response
    now,        \* datetime.now(timezone.utc), at the store's millisecond resolution
    last,       \* the last request completed: operation, argument and response
    contended   \* history: pairs of requests seen in flight together for one
                \* session with equal participants p and p <= available < 2p

vars == <<db, user, token, session, booking, req, now, last, contended>>

\* ------------------------------------------------------------- identifiers
\* An id travels as a string of 24 hex digits.  Two spellings of the same
\* digits (lower-case and upper-case letter digits) are different strings.
HexStr(n, up) == [n |-> n, upper |-> up]
\* A string that is not 24 hex digits.
Malformed == [n |-> 0, upper |-> FALSE]

\* bson.ObjectId(s): raises unless s is 24 hex digits, of either case.
ObjectIdValid(s) == s.n # 0
ObjectId(s) == s.n
\* str(ObjectId): always the lower-case spelling.
str(oid) == HexStr(oid, FALSE)

IdStrings(S) == {HexStr(n, up) : n \in S, up \in BOOLEAN} \cup {Malformed}

Max(a, b) == IF a >= b THEN a ELSE b

\* dict.get(key, default)
Get(d, k, default) == IF k \in DOMAIN d THEN d[k] ELSE default

\* ------------------------------------------------------------- sums over sets
RECURSIVE Sum(_, _)
\* The sum of f[x] over x in S.
Sum(f, S) ==
    IF S = {} THEN 0
    ELSE LET x == CHOOSE y \in S : TRUE IN f[x] + Sum(f, S \ {x})

\* ------------------------------------------------------------- responses
\* An HTTP response: status code, detail, the N of "Only N spot(s) left"
\* (-1 when the detail carries none) and the id returned (0 when none).
Resp(code, detail) == [code |-> code, detail |-> detail, left |-> -1, id |-> 0]
NoResp == Resp(0, "")
OnlyLeft(n) == [code |-> 400, detail |-> "Only N spot(s) left", left |-> n, id |-> 0]
Created(id, detail) == [code |-> 200, detail |-> detail, left |-> -1, id |-> id]

\* ------------------------------------------------------------- auth
Emails == {"ada", "cody", "sam", "gus", "zed"}
OperatorRoles == {"admin", "coach", "school"}
\* RegisterIn.role is any string: the operator roles and one that is none of them
Roles == OperatorRoles \cup {"surfer"}

\* pwd_context.hash / pwd_context.verify: a hash is not the password, and
\* verifies against the password it was made from and no other.
get_password_hash(password) == <<"bcrypt", password>>
verify_password(plain_password, password_hash) ==
    password_hash = <<"bcrypt", plain_password>>

\* A document of collection "user"; Absent where find_one gives None.
UserDoc(role, password) == [role |-> role, password_hash |-> get_password_hash(password)]
Absent == [role |-> "absent", password_hash |-> <<>>]
\* The password of the accounts that exist from the start, and the passwords
\* a client chooses or guesses.
StaffPassword == "staff-secret"
ClientPasswords == {"hunter2"}

\* The Authorization header: none (or not "Bearer ..."), a token jwt.decode
\* refuses, or a token signed by create_access_token for the email sub.
NoHeader == [kind |-> "none", sub |-> ""]
Garbage == [kind |-> "garbage", sub |-> ""]
Bearer(e) == [kind |-> "bearer", sub |-> e]
Authorizations == {NoHeader, Garbage} \cup {Bearer(e) : e \in token}
\* the credentials of the logged-in operators
Operators == {Bearer(e) : e \in {x \in token : user[x].role \in OperatorRoles}}

get_current_user(authorization) ==
    IF authorization.kind = "none" THEN Resp(401, "Not authenticated")
    ELSE IF authorization.kind = "garbage" THEN Resp(401, "Invalid token")
    ELSE IF ~db THEN Resp(500, "Database not configured")
    ELSE IF user[authorization.sub] = Absent THEN Resp(401, "User not found")
    ELSE Resp(200, user[authorization.sub].role)

\* require_role letting every authenticated user through
require_role_open(allowed_roles, authorization) ==
    LET u == get_current_user(authorization)
    IN  IF u.code # 200 THEN u ELSE Resp(200, "ok")

\* require_role(*allowed_roles): the response of the dependency, 200 to proceed.
require_role(allowed_roles, authorization) ==
    LET u == get_current_user(authorization)
    IN  IF u.code # 200 THEN u
        ELSE IF u.detail \notin allowed_roles THEN Resp(403, "Insufficient permissions")
        ELSE Resp(200, "ok")

\* ------------------------------------------------------------- store
None == [id |-> 0]
IsNone(doc) == doc.id = 0

\* database.create_document(collection, data): stamps the document with the
\* time, inserts it, returns the generated id (here the next index).  Of the
\* two timestamps only updated_at is written again later, and only it is kept.
create_document(collection, data) ==
    Append(collection, data @@ [id |-> Len(collection) + 1, updated_at |-> now])

\* db["session"].find_one({"_id": ObjectId(session_id)}) inside try/except:
\* a string ObjectId refuses gives None, like an id matching no document.
find_one_session(session_id) ==
    IF ~ObjectIdValid(session_id) THEN None
    ELSE IF ObjectId(session_id) \in DOMAIN session THEN session[ObjectId(session_id)]
    ELSE None

\* update_one with a filter that falls back to the first document
update_one_unfiltered(oid, status) ==
    LET hit == IF oid \in DOMAIN booking THEN oid ELSE 1
    IN  IF hit \notin DOMAIN booking THEN [modified_count |-> 0, booking |-> booking]
        ELSE LET doc == [booking[hit] EXCEPT !.status = status, !.updated_at = now]
             IN  [modified_count |-> IF doc = booking[hit] THEN 0 ELSE 1,
                  booking |-> [booking EXCEPT ![hit] = doc]]

\* find that matches the cancelled bookings too
AnyStatus(collection, session_id) ==
    SelectSeq(collection, LAMBDA b : b.session_id = session_id)

\* update_one replacing the document by a fresh one instead of $set
update_one_replacing(oid, status) ==
    IF oid \notin DOMAIN booking THEN [modified_count |-> 0, booking |-> booking]
    ELSE LET doc == [booking[oid] EXCEPT !.status = status, !.updated_at = now,
                                         !.participants = 1]
         IN  [modified_count |-> IF doc = booking[oid] THEN 0 ELSE 1,
              booking |-> [booking EXCEPT ![oid] = doc]]

\* db["booking"].update_one({"_id": oid}, {"$set": {"status": status,
\* "updated_at": now}}): modified_count is 1 only when a document matched
\* and the $set changed it.
update_one(oid, status) ==
    IF oid \notin DOMAIN booking THEN [modified_count |-> 0, booking |-> booking]
    ELSE LET doc == [booking[oid] EXCEPT !.status = status, !.updated_at = now]
         IN  [modified_count |-> IF doc = booking[oid] THEN 0 ELSE 1,
              booking |-> [booking EXCEPT ![oid] = doc]]

\* ------------------------------------------------------------- availability
\* find({"session_id": session_id, "status": {"$ne": "cancelled"}}) on a collection
NotCancelled(collection, session_id) ==
    SelectSeq(collection,
              LAMBDA b : b.session_id = session_id /\ b.status # "cancelled")

\* bookings_for_session without the session_id of the filter
bookings_for_session_all(session_id) ==
    IF ~db THEN <<>> ELSE SelectSeq(booking, LAMBDA b : b.status # "cancelled")

bookings_for_session(session_id) ==
    IF ~db THEN <<>> ELSE NotCancelled(booking, session_id)

RECURSIVE SumParticipants(_)
\* sum(max(1, int(b.get("participants", 1))) for b in bookings)
SumParticipants(bookings) ==
    IF bookings = <<>> THEN 0
    ELSE Max(1, Get(Head(bookings), "participants", 1)) + SumParticipants(Tail(bookings))

\* session_availability without the floor of one slot per booking
session_availability_unfloored(session_doc) ==
    LET capacity == Get(session_doc, "capacity", 1)
        bookings == bookings_for_session(str(session_doc.id))
        booked == Sum([i \in DOMAIN bookings |-> bookings[i].participants],
                      DOMAIN bookings)
        available == Max(0, capacity - booked)
    IN  [booked |-> booked, available |-> available, capacity |-> capacity]

session_availability(session_doc) ==
    LET capacity == Get(session_doc, "capacity", 1)
        bookings == bookings_for_session(str(session_doc.id))
        booked == SumParticipants(bookings)
        available == Max(0, capacity - booked)
    IN  [booked |-> booked, available |-> available, capacity |-> capacity]

\* ------------------------------------------------------------- requests
\* BookingIn.user_email: the requester; the r-th request comes from the r-th.
Requester(r) == [surfer |-> r]
Nobody == Requester(0)
\* the local avail of create_booking before the availability read
NoAvail == [booked |-> 0, available |-> 0, capacity |-> 0]
Reqs == 1..NumReqs
\* participants: int = 1 has no constraint; below 1, within and above capacity
PValues == -1..MaxCap
SessionIdStrings == IdStrings(1..MaxSessions)
\* ids of bookings that can exist, and one more that never does
BookingIdStrings ==
    {str(n) : n \in 1..(NumReqs + 1)} \cup {HexStr(1, TRUE), Malformed}

Idle ==
    [pc |-> "idle", session_id |-> Malformed, user_email |-> Nobody,
     participants |-> 0,
     session_doc |-> None, avail |-> NoAvail, resp |-> NoResp]

InFlight(r) == req[r].pc \in {"check", "insert"}

\* Pairs of requests in flight together for one session, named by its id
\* string, each asking for p participants, while the session's availability a
\* has p <= a < 2p.
Contended ==
    {pair \in (DOMAIN req) \X (DOMAIN req) :
        /\ pair[1] < pair[2]
        /\ InFlight(pair[1]) /\ InFlight(pair[2])
        /\ req[pair[1]].session_id = str(req[pair[1]].session_doc.id)
        /\ req[pair[2]].session_id = req[pair[1]].session_id
        /\ req[pair[1]].participants = req[pair[2]].participants
        /\ LET a == session_availability(req[pair[1]].session_doc).available
               p == req[pair[1]].participants
           IN  p <= a /\ a < 2 * p}

Observe == contended' = contended \cup Contended'

\* The request r ends with response resp.
Finish(r, rec, resp) ==
    /\ req' = [req EXCEPT ![r] = [rec EXCEPT !.pc = "done", !.resp = resp]]
    /\ last' = [op |-> "create_booking", arg |-> r, resp |-> resp]

\* POST /api/bookings, up to the session lookup (the first store operation).
create_booking_find(r, session_id, participants) ==
    /\ req[r].pc = "idle"
    /\ \A q \in 1..(r - 1) : req[q].pc # "idle"
    /\ LET payload == [req[r] EXCEPT !.session_id = session_id,
                                     !.user_email = Requester(r),
                                     !.participants = participants]
           session_doc == find_one_session(session_id)
       IN  IF ~db THEN Finish(r, payload, Resp(500, "Database not configured"))
           ELSE IF IsNone(session_doc)
                THEN Finish(r, payload, Resp(404, "Session not found"))
           ELSE /\ req' = [req EXCEPT ![r] = [payload EXCEPT !.pc = "check",
                                                             !.session_doc = session_doc]]
                /\ UNCHANGED last
    /\ UNCHANGED <<db, user, token, session, booking, now>>
    /\ Observe

\* create_booking_check rejecting a request for exactly the spots left
create_booking_check_strict(r) ==
    /\ req[r].pc = "check"
    /\ LET avail == session_availability(req[r].session_doc)
       IN  IF req[r].participants >= avail.available
           THEN Finish(r, [req[r] EXCEPT !.avail = avail], OnlyLeft(avail.available))
           ELSE /\ req' = [req EXCEPT ![r].pc = "insert", ![r].avail = avail]
                /\ UNCHANGED last
    /\ UNCHANGED <<db, user, token, session, booking, now>>
    /\ Observe

\* create_booking_check storing the booking it rejects
create_booking_check_stored(r) ==
    /\ req[r].pc = "check"
    /\ LET avail == session_availability(req[r].session_doc)
       IN  IF req[r].participants > avail.available
           THEN /\ Finish(r, [req[r] EXCEPT !.avail = avail], OnlyLeft(avail.available))
                /\ booking' = create_document(booking,
                                  [session_id |-> req[r].session_id,
                                   user_email |-> req[r].user_email,
                                   participants |-> req[r].participants,
                                   status |-> "cancelled"])
           ELSE /\ req' = [req EXCEPT ![r].pc = "insert", ![r].avail = avail]
                /\ UNCHANGED <<last, booking>>
    /\ UNCHANGED <<db, user, token, session, now>>
    /\ Observe

\* The availability read (the second store operation) and the decision.
create_booking_check(r) ==
    /\ req[r].pc = "check"
    /\ LET avail == session_availability(req[r].session_doc)
       IN  IF req[r].participants > avail.available
           THEN Finish(r, [req[r] EXCEPT !.avail = avail], OnlyLeft(avail.available))
           ELSE /\ req' = [req EXCEPT ![r].pc = "insert", ![r].avail = avail]
                /\ UNCHANGED last
    /\ UNCHANGED <<db, user, token, session, booking, now>>
    /\ Observe

\* create_booking_insert writing the status the Booking schema defaults to
create_booking_insert_pending(r) ==
    /\ req[r].pc = "insert"
    /\ booking' = create_document(booking,
                      [session_id |-> req[r].session_id,
                       user_email |-> req[r].user_email,
                       participants |-> req[r].participants,
                       status |-> "pending"])
    /\ Finish(r, req[r], Created(Len(booking) + 1, "pending"))
    /\ UNCHANGED <<db, user, token, session, now>>
    /\ Observe

\* The insert (the third store operation) and the response.
create_booking_insert(r) ==
    /\ req[r].pc = "insert"
    /\ booking' = create_document(booking,
                      [session_id |-> req[r].session_id,
                       user_email |-> req[r].user_email,
                       participants |-> req[r].participants,
                       status |-> "confirmed"])
    /\ Finish(r, req[r], Created(Len(booking) + 1, "confirmed"))
    /\ UNCHANGED <<db, user, token, session, now>>
    /\ Observe

\* POST /api/sessions
create_session(capacity, authorization) ==
    LET auth == require_role(OperatorRoles, authorization)
        resp == IF auth.code # 200 THEN auth
                ELSE IF capacity < 1 THEN Resp(422, "capacity: ge=1")
                ELSE IF ~db THEN Resp(500, "Database not configured")
                ELSE Created(Len(session) + 1, "")
    IN  /\ resp.code = 200 => Len(session) < MaxSessions
        /\ session' = IF resp.code = 200
                      THEN create_document(session, [capacity |-> capacity])
                      ELSE session
        /\ last' = [op |-> "create_session", arg |-> capacity, resp |-> resp]
        /\ UNCHANGED <<db, user, token, booking, req, now>>
        /\ Observe

\* POST /auth/register: anyone, with any email, password and role.
register_user(email, password, role) ==
    LET resp == IF ~db THEN Resp(500, "Database not configured")
                ELSE IF user[email] # Absent THEN Resp(400, "Email already registered")
                ELSE Resp(200, "registered")
    IN  /\ user' = IF resp.code = 200
                   THEN [user EXCEPT ![email] = UserDoc(role, password)]
                   ELSE user
        /\ last' = [op |-> "register", arg |-> email, resp |-> resp]
        /\ UNCHANGED <<db, token, session, booking, req, now>>
        /\ Observe

\* POST /auth/login: a token for the email, given the account's password.
login(email, password) ==
    LET resp == IF ~db THEN Resp(500, "Database not configured")
                ELSE IF \/ user[email] = Absent
                        \/ ~verify_password(password, user[email].password_hash)
                     THEN Resp(401, "Invalid credentials")
                ELSE Resp(200, "bearer")
    IN  /\ token' = IF resp.code = 200 THEN token \cup {email} ELSE token
        /\ last' = [op |-> "login", arg |-> email, resp |-> resp]
        /\ UNCHANGED <<db, user, session, booking, req, now>>
        /\ Observe

\* POST /api/admin/bookings/{booking_id}/cancel
cancel_booking(booking_id, authorization) ==
    LET auth == require_role(OperatorRoles, authorization)
        res == update_one(ObjectId(booking_id), "cancelled")
        resp == IF auth.code # 200 THEN auth
                ELSE IF ~db THEN Resp(500, "Database not configured")
                ELSE IF ~ObjectIdValid(booking_id) THEN Resp(400, "Invalid booking id")
                ELSE IF res.modified_count = 0 THEN Resp(404, "Booking not found")
                ELSE Resp(200, "ok")
    IN  /\ booking' = IF resp.code \in {200, 404} THEN res.booking ELSE booking
        /\ last' = [op |-> "cancel", arg |-> booking_id, resp |-> resp]
        /\ UNCHANGED <<db, user, token, session, req, now>>
        /\ Observe

\* POST /api/admin/bookings/{booking_id}/attend
attend_booking(booking_id, authorization) ==
    LET auth == require_role(OperatorRoles, authorization)
        res == update_one(ObjectId(booking_id), "attended")
        resp == IF auth.code # 200 THEN auth
                ELSE IF ~db THEN Resp(500, "Database not configured")
                ELSE IF ~ObjectIdValid(booking_id) THEN Resp(400, "Invalid booking id")
                ELSE IF res.modified_count = 0 THEN Resp(404, "Booking not found")
                ELSE Resp(200, "ok")
    IN  /\ booking' = IF resp.code \in {200, 404} THEN res.booking ELSE booking
        /\ last' = [op |-> "attend", arg |-> booking_id, resp |-> resp]
        /\ UNCHANGED <<db, user, token, session, req, now>>
        /\ Observe

\* Time passes: the next datetime.now() gives a later millisecond.
Tick ==
    /\ now < MaxClock
    /\ now' = now + 1
    /\ UNCHANGED <<db, user, token, session, booking, req, last, contended>>

\* ------------------------------------------------------------- specification
\* The accounts that exist from the start: one per role, and no "zed".
Staff ==
    [e \in Emails |->
        CASE e = "ada" -> UserDoc("admin", StaffPassword)
          [] e = "cody" -> UserDoc("coach", StaffPassword)
          [] e = "sam" -> UserDoc("school", StaffPassword)
          [] e = "gus" -> UserDoc("surfer", StaffPassword)
          [] OTHER -> Absent]

\* A deployment with or without a configured store; four registered users,
\* one per role, the admin and the surfer logged in; no session, no booking,
\* no request yet.
Init ==
    /\ db \in BOOLEAN
    /\ user = Staff
    /\ token = {"ada", "gus"}
    /\ session = <<>>
    /\ booking = <<>>
    /\ req = [r \in Reqs |-> Idle]
    /\ now = 0
    /\ last = [op |-> "none", arg |-> 0, resp |-> NoResp]
    /\ contended = {}

Next ==
    \/ \E r \in DOMAIN req, session_id \in SessionIdStrings, participants \in PValues :
          create_booking_find(r, session_id, participants)
    \/ \E r \in DOMAIN req : create_booking_check(r)
    \/ \E r \in DOMAIN req : create_booking_insert(r)
    \/ \E capacity \in 0..MaxCap, authorization \in Operators :
          create_session(capacity, authorization)
    \/ \E booking_id \in BookingIdStrings, authorization \in Operators :
          cancel_booking(booking_id, authorization)
    \/ \E booking_id \in BookingIdStrings, authorization \in Operators :
          attend_booking(booking_id, authorization)
    \/ Tick

Spec == Init /\ [][Next]_vars

\* ------------------------------------------------------------- admission alone
\* At most one session, no booking yet, and only create_booking requests run.
SessionStores ==
    {st \in UNION {[1..n -> [id : 1..n, capacity : 1..MaxCap, updated_at : {0}]] :
                      n \in 0..MaxSessions} :
        \A i \in DOMAIN st : st[i].id = i}

InitAdmit ==
    /\ db \in BOOLEAN
    /\ user = [e \in Emails |-> Absent]
    /\ token = {}
    /\ session \in {st \in SessionStores : Len(st) <= 1}
    /\ booking = <<>>
    /\ req = [r \in Reqs |-> Idle]
    /\ now = 0
    /\ last = [op |-> "none", arg |-> 0, resp |-> NoResp]
    /\ contended = {}

NextAdmit ==
    \/ \E r \in DOMAIN req, session_id \in SessionIdStrings, participants \in PValues :
          create_booking_find(r, session_id, participants)
    \/ \E r \in DOMAIN req : create_booking_check(r)
    \/ \E r \in DOMAIN req : create_booking_insert(r)

SpecAdmit == InitAdmit /\ [][NextAdmit]_vars

\* ------------------------------------------------------------- availability alone
\* GET /api/sessions, with no filter: every session with its availability.
list_sessions ==
    /\ last' = [op |-> "list_sessions", arg |-> 0,
                resp |-> IF ~db THEN Resp(500, "Database not configured")
                         ELSE [code |-> 200,
                               items |-> [i \in DOMAIN session |->
                                            session_availability(session[i])]]]
    /\ UNCHANGED <<db, user, token, session, booking, req, now, contended>>

\* The booking collections create_booking, cancel and attend can leave behind
\* sessions st: each booking was admitted for an existing session under one of
\* the spellings of its id, with participants no larger than its capacity.
BookingStores(st, len) ==
    {[i \in DOMAIN core |-> core[i] @@ [id |-> i, user_email |-> Requester(i),
                                         updated_at |-> 0]] :
        core \in {c \in UNION {[1..n -> [session_id : IdStrings(DOMAIN st) \ {Malformed},
                                        participants : PValues,
                                        status : {"confirmed", "cancelled", "attended"}]] :
                                  n \in 0..len} :
                     \A i \in DOMAIN c :
                        c[i].participants <= st[ObjectId(c[i].session_id)].capacity}}

InitAvail ==
    /\ db = TRUE
    /\ user = [e \in Emails |-> Absent]
    /\ token = {}
    /\ session \in SessionStores \ {<<>>}
    /\ booking \in BookingStores(session, MaxLen)
    /\ req = [r \in Reqs |-> Idle]
    /\ now = 0
    /\ last = [op |-> "none", arg |-> 0, resp |-> NoResp]
    /\ contended = {}

NextAvail == list_sessions

SpecAvail == InitAvail /\ [][NextAvail]_vars

\* ------------------------------------------------------------- lifecycle alone
\* One session and the bookings admitted for it so far; operators cancel and
\* attend while time passes.
InitLife ==
    /\ db \in BOOLEAN
    /\ user = Staff
    /\ token = {"ada", "gus"}
    /\ session \in {st \in SessionStores : Len(st) = 1}
    /\ booking \in BookingStores(session, LifeLen)
    /\ req = [r \in Reqs |-> Idle]
    /\ now = 0
    /\ last = [op |-> "none", arg |-> 0, resp |-> NoResp]
    /\ contended = {}

NextLife ==
    \/ \E booking_id \in BookingIdStrings, authorization \in Operators :
          cancel_booking(booking_id, authorization)
    \/ \E booking_id \in BookingIdStrings, authorization \in Operators :
          attend_booking(booking_id, authorization)
    \/ Tick

SpecLife == InitLife /\ [][NextLife]_vars

\* ------------------------------------------------------------- a failing store
\* POST /api/bookings when find_one on session raises (the store is
\* unreachable): the except clause of the lookup sets session_doc = None.
create_booking_find_raises(r, session_id, participants) ==
    /\ req[r].pc = "idle"
    /\ \A q \in 1..(r - 1) : req[q].pc # "idle"
    /\ db
    /\ ObjectIdValid(session_id)
    /\ LET payload == [req[r] EXCEPT !.session_id = session_id,
                                     !.user_email = Requester(r),
                                     !.participants = participants]
           session_doc == None
       IN  IF IsNone(session_doc)
           THEN Finish(r, payload, Resp(404, "Session not found"))
           ELSE /\ req' = [req EXCEPT ![r] = [payload EXCEPT !.pc = "check",
                                                             !.session_doc = session_doc]]
                /\ UNCHANGED last
    /\ UNCHANGED <<db, user, token, session, booking, now>>
    /\ Observe

\* POST /api/admin/bookings/{booking_id}/cancel when update_one raises: the
\* except clause around it answers 400, and nothing was written.
cancel_booking_raises(booking_id, authorization) ==
    /\ require_role(OperatorRoles, authorization).code = 200
    /\ db
    /\ ObjectIdValid(booking_id)
    /\ last' = [op |-> "cancel", arg |-> booking_id,
                resp |-> Resp(400, "Invalid booking id")]
    /\ UNCHANGED <<db, user, token, session, booking, req, now>>
    /\ Observe

\* POST /api/admin/bookings/{booking_id}/attend when update_one raises.
attend_booking_raises(booking_id, authorization) ==
    /\ require_role(OperatorRoles, authorization).code = 200
    /\ db
    /\ ObjectIdValid(booking_id)
    /\ last' = [op |-> "attend", arg |-> booking_id,
                resp |-> Resp(400, "Invalid booking id")]
    /\ UNCHANGED <<db, user, token, session, booking, req, now>>
    /\ Observe

\* One session and no booking yet; every request may find the store failing
\* at its lookup or at its update.
InitFail ==
    /\ db \in BOOLEAN
    /\ user = Staff
    /\ token = {"ada", "gus"}
    /\ session \in {st \in SessionStores : Len(st) = 1}
    /\ booking = <<>>
    /\ req = [r \in Reqs |-> Idle]
    /\ now = 0
    /\ last = [op |-> "none", arg |-> 0, resp |-> NoResp]
    /\ contended = {}

NextFail ==
    \/ \E r \in DOMAIN req, session_id \in SessionIdStrings, participants \in PValues :
          create_booking_find(r, session_id, participants)
    \/ \E r \in DOMAIN req, session_id \in SessionIdStrings, participants \in PValues :
          create_booking_find_raises(r, session_id, participants)
    \/ \E r \in DOMAIN req : create_booking_check(r)
    \/ \E r \in DOMAIN req : create_booking_insert(r)
    \/ \E booking_id \in BookingIdStrings, authorization \in Operators :
          cancel_booking(booking_id, authorization)
    \/ \E booking_id \in BookingIdStrings, authorization \in Operators :
          cancel_booking_raises(booking_id, authorization)
    \/ \E booking_id \in BookingIdStrings, authorization \in Operators :
          attend_booking(booking_id, authorization)
    \/ \E booking_id \in BookingIdStrings, authorization \in Operators :
          attend_booking_raises(booking_id, authorization)

SpecFail == InitFail /\ [][NextFail]_vars

\* ------------------------------------------------------------- one at a time
\* No create_booking request is between its lookup and its response.
Quiet == \A r \in DOMAIN req : ~InFlight(r)

\* Serial executions: one session, no booking yet; create_booking requests
\* for it, with any participants, and cancel and attend requests run one at a
\* time, each to its response, all within one millisecond.
InitSerial ==
    /\ db = TRUE
    /\ user = Staff
    /\ token = {"ada", "gus"}
    /\ session \in {st \in SessionStores : Len(st) = 1}
    /\ booking = <<>>
    /\ req = [r \in Reqs |-> Idle]
    /\ now = 0
    /\ last = [op |-> "none", arg |-> 0, resp |-> NoResp]
    /\ contended = {}

NextSerial ==
    \/ \E r \in DOMAIN req, s \in DOMAIN session, participants \in PValues :
          Quiet /\ create_booking_find(r, str(s), participants)
    \/ \E r \in DOMAIN req : create_booking_check(r)
    \/ \E r \in DOMAIN req : create_booking_insert(r)
    \/ \E booking_id \in BookingIdStrings, authorization \in Operators :
          Quiet /\ cancel_booking(booking_id, authorization)
    \/ \E booking_id \in BookingIdStrings, authorization \in Operators :
          Quiet /\ attend_booking(booking_id, authorization)

SpecSerial == InitSerial /\ [][NextSerial]_vars

\* Authorization: one session, no booking yet, and a token in circulation for
\* every email, "zed" included, whose user document is not in the store.  One
\* create_booking request is made; anyone calls cancel and attend, with no
\* header, with a token that does not verify, or with any of the tokens.
OneShot(r) == \A q \in DOMAIN req \ {r} : req[q].pc = "idle"

InitAuth ==
    /\ db \in BOOLEAN
    /\ user = Staff
    /\ token = Emails
    /\ session \in {st \in SessionStores : Len(st) = 1}
    /\ booking = <<>>
    /\ req = [r \in Reqs |-> Idle]
    /\ now = 0
    /\ last = [op |-> "none", arg |-> 0, resp |-> NoResp]
    /\ contended = {}

NextAuth ==
    \/ \E r \in DOMAIN req, s \in DOMAIN session, participants \in PValues :
          OneShot(r) /\ create_booking_find(r, str(s), participants)
    \/ \E r \in DOMAIN req : create_booking_check(r)
    \/ \E r \in DOMAIN req : create_booking_insert(r)
    \/ \E booking_id \in BookingIdStrings, authorization \in Authorizations :
          cancel_booking(booking_id, authorization)
    \/ \E booking_id \in BookingIdStrings, authorization \in Authorizations :
          attend_booking(booking_id, authorization)

SpecAuth == InitAuth /\ [][NextAuth]_vars

\* Independence: several sessions of one capacity and the bookings admitted
\* for them so far, each under its session's own id string for one or more
\* participants.  One create_booking request is made, for any of the sessions,
\* while operators cancel and attend the bookings of any of them.
PairStores ==
    {st \in [1..NumPair -> [id : 1..NumPair, capacity : 1..MaxCap, updated_at : {0}]] :
        \A i \in DOMAIN st : st[i].id = i /\ st[i].capacity = st[1].capacity}

InitPair ==
    /\ db = TRUE
    /\ user = Staff
    /\ token = {"ada", "gus"}
    /\ session \in PairStores
    /\ booking \in {st \in BookingStores(session, LifeLen) :
                       \A i \in DOMAIN st : /\ ~st[i].session_id.upper
                                            /\ st[i].participants >= 1
                                            /\ st[i].status = "confirmed"}
    /\ req = [r \in Reqs |-> Idle]
    /\ now = 0
    /\ last = [op |-> "none", arg |-> 0, resp |-> NoResp]
    /\ contended = {}

NextPair ==
    \/ \E r \in DOMAIN req, s \in DOMAIN session, participants \in PValues :
          OneShot(r) /\ create_booking_find(r, str(s), participants)
    \/ \E r \in DOMAIN req : create_booking_check(r)
    \/ \E r \in DOMAIN req : create_booking_insert(r)
    \/ \E i \in DOMAIN booking, authorization \in Operators :
          cancel_booking(str(i), authorization)
    \/ \E i \in DOMAIN booking, authorization \in Operators :
          attend_booking(str(i), authorization)

SpecPair == InitPair /\ [][NextPair]_vars

\* A client alone: the staff accounts exist, the client has no account and
\* no token and does not know a staff password; one session with confirmed
\* bookings.  The client registers, logs in, lists, books, and calls cancel
\* and attend with no header, a token that does not verify, or a token it got
\* from login.
InitClient ==
    /\ db = TRUE
    /\ user = Staff
    /\ token = {}
    /\ session \in {st \in SessionStores : Len(st) = 1}
    /\ booking \in {st \in BookingStores(session, LifeLen) :
                       \A i \in DOMAIN st : /\ ~st[i].session_id.upper
                                            /\ st[i].participants >= 1
                                            /\ st[i].status = "confirmed"}
    /\ req = [r \in Reqs |-> Idle]
    /\ now = 0
    /\ last = [op |-> "none", arg |-> 0, resp |-> NoResp]
    /\ contended = {}

NextClient ==
    \/ \E email \in Emails, password \in ClientPasswords, role \in Roles :
          register_user(email, password, role)
    \/ \E email \in Emails, password \in ClientPasswords : login(email, password)
    \/ list_sessions
    \/ \E r \in DOMAIN req, s \in DOMAIN session, participants \in PValues :
          OneShot(r) /\ create_booking_find(r, str(s), participants)
    \/ \E r \in DOMAIN req : create_booking_check(r)
    \/ \E r \in DOMAIN req : create_booking_insert(r)
    \/ \E booking_id \in BookingIdStrings, authorization \in Authorizations :
          cancel_booking(booking_id, authorization)
    \/ \E booking_id \in BookingIdStrings, authorization \in Authorizations :
          attend_booking(booking_id, authorization)

SpecClient == InitClient /\ [][NextClient]_vars

\* Round trips: from the stores the handlers leave behind when every booking
\* was made under the session's own id string for one or more participants, a
\* request is made, an operator cancels its booking right after it was made, and the next
\* request follows that cancel; one at a time.
InitTrip ==
    /\ db \in BOOLEAN
    /\ user = Staff
    /\ token = {"ada", "gus"}
    /\ session \in {st \in SessionStores : Len(st) = 1}
    /\ booking \in {st \in BookingStores(session, LifeLen) :
                       \A i \in DOMAIN st : /\ st[i].session_id = str(1)
                                            /\ st[i].participants >= 1}
    /\ req = [r \in Reqs |-> Idle]
    /\ now = 0
    /\ last = [op |-> "none", arg |-> 0, resp |-> NoResp]
    /\ contended = {}

NextTrip ==
    \/ \E r \in DOMAIN req, session_id \in IdStrings(DOMAIN session),
           participants \in PValues :
          /\ Quiet
          /\ last.op = "none" \/ (last.op = "cancel" /\ last.resp.code = 200)
          /\ create_booking_find(r, session_id, participants)
    \/ \E r \in DOMAIN req : create_booking_check(r)
    \/ \E r \in DOMAIN req : create_booking_insert(r)
    \/ \E authorization \in Operators :
          /\ Quiet
          /\ last.op = "create_booking" /\ last.resp.code = 200
          /\ cancel_booking(str(last.resp.id), authorization)

SpecTrip == InitTrip /\ [][NextTrip]_vars

\* The bookings stored under the id string of session s and not cancelled:
\* those the availability query matches.
Counted(s) ==
    {i \in DOMAIN booking :
        booking[i].session_id = str(s) /\ booking[i].status # "cancelled"}

\* ------------------------------------------------------------- claims

\* C1: no overbooking.  In every reachable state, for every session S, the
\* sum of participants over the bookings that reference S and are not
\* cancelled is at most S.capacity.
C1_NoOverbooking ==
    \A s \in DOMAIN session :
        Sum([i \in DOMAIN booking |-> booking[i].participants], Counted(s))
            <= session[s].capacity

\* C2: exactly one winner.  Two requests that were in flight together for one
\* session, each asking for p participants while p <= available < 2p, end with
\* exactly one admitted and the other rejected with the capacity error.
C2_ExactlyOneWinner ==
    \A pair \in contended :
        (req[pair[1]].pc = "done" /\ req[pair[2]].pc = "done") =>
            \E w \in {pair[1], pair[2]} :
                /\ req[w].resp.code = 200
                /\ \A l \in {pair[1], pair[2]} \ {w} :
                      req[l].resp.code = 400 /\ req[l].resp.left >= 0

\* The serial execution of the finished requests in the order given, from an
\* empty booking collection, gives each request the response it got.
RECURSIVE Replay(_, _)
Replay(order, bookings) ==
    IF order = <<>> THEN TRUE
    ELSE LET r == Head(order)
             resp == req[r].resp
             doc == find_one_session(req[r].session_id)
             a == IF IsNone(doc) THEN 0
                  ELSE Max(0, doc.capacity
                                - Sum([i \in DOMAIN bookings |->
                                         Max(1, bookings[i].participants)],
                                      {i \in DOMAIN bookings :
                                          /\ bookings[i].session_id = str(doc.id)
                                          /\ bookings[i].status # "cancelled"}))
         IN  IF ~db THEN resp.code = 500 /\ Replay(Tail(order), bookings)
             ELSE IF IsNone(doc) THEN resp.code = 404 /\ Replay(Tail(order), bookings)
             ELSE IF req[r].participants > a
                  THEN /\ resp.code = 400 /\ resp.left = a
                       /\ Replay(Tail(order), bookings)
             ELSE /\ resp.code = 200
                  /\ Replay(Tail(order),
                            Append(bookings,
                                   [session_id |-> req[r].session_id,
                                    participants |-> req[r].participants,
                                    status |-> "confirmed"]))

Orders(S) ==
    {o \in [1..Cardinality(S) -> S] : \A i, j \in DOMAIN o : o[i] = o[j] => i = j}

\* C3: admission is linearizable.  When no request is in flight, the responses
\* of the finished requests (admitted, or rejected and with which remaining
\* count) are those of some execution running them one at a time.
C3_Linearizable ==
    (\A r \in DOMAIN req : req[r].pc \in {"idle", "done"}) =>
        \E order \in Orders({r \in DOMAIN req : req[r].pc = "done"}) :
            Replay(order, <<>>)

Floored == [i \in DOMAIN booking |-> IF booking[i].participants < 1 THEN 1
                                     ELSE booking[i].participants]

\* C4: availability arithmetic.  The availability returned for a session has
\* booked = the sum of max(1, participants) over its bookings that are not
\* cancelled (attended ones included), and available = max(0, capacity -
\* booked), never negative.
C4_Availability ==
    (last.op = "list_sessions" /\ last.resp.code = 200) =>
        \A s \in DOMAIN session :
            LET got == last.resp.items[s]
                booked == Sum(Floored, Counted(s))
            IN  /\ got.booked = booked
                /\ got.capacity = session[s].capacity
                /\ got.available >= 0
                /\ got.available = IF booked >= session[s].capacity THEN 0
                                   ELSE session[s].capacity - booked

\* A session listed with an attended booking of fewer than one participant
\* counted as one, and with more booked than its capacity.
C4_Witness ==
    /\ last.op = "list_sessions" /\ last.resp.code = 200
    /\ \E s \in DOMAIN session :
          /\ \E i \in Counted(s) :
                booking[i].status = "attended" /\ booking[i].participants < 1
          /\ last.resp.items[s].booked > session[s].capacity
          /\ last.resp.items[s].available = 0

\* The available count of session s by the arithmetic of C4.
Available(s) ==
    LET booked == Sum(Floored, Counted(s))
    IN  IF booked >= session[s].capacity THEN 0 ELSE session[s].capacity - booked

\* C5: admission decision and exact remaining count.  A request for an
\* existing session that reads availability a is admitted (and its booking
\* then persisted) if and only if participants <= a; when rejected, the error
\* reports exactly a; a request for one or more participants that reads a full
\* session is rejected with "Only 0 spot(s) left".
C5_Admission ==
    [][\A r \in DOMAIN req :
          /\ (req[r].pc = "check" /\ req'[r].pc # "check") =>
                LET s == req[r].session_doc.id
                    a == Available(s)
                    p == req[r].participants
                IN  /\ s \in DOMAIN session
                    /\ req'[r].pc \in {"insert", "done"}
                    /\ req'[r].pc = "insert" <=> p <= a
                    /\ req'[r].pc = "done" => req'[r].resp = OnlyLeft(a)
                    /\ (Sum(Floored, Counted(s)) >= session[s].capacity /\ p >= 1) =>
                          req'[r].pc = "done" /\ req'[r].resp.left = 0
          /\ (req[r].pc = "insert" /\ req'[r].pc # "insert") =>
                /\ req'[r].pc = "done" /\ req'[r].resp.code = 200
                /\ Len(booking') = Len(booking) + 1
      ]_vars

\* Scenario A: a request admitted for the whole capacity of a session, and a
\* later request for one or more participants rejected with "Only 0 spot(s) left".
C5_Witness ==
    \E r1, r2 \in DOMAIN req :
        /\ req[r1].pc = "done" /\ req[r1].resp.code = 200
        /\ req[r1].session_id = str(req[r1].session_doc.id)
        /\ req[r1].participants = req[r1].session_doc.capacity
        /\ req[r2].pc = "done" /\ req[r2].resp = OnlyLeft(0)
        /\ req[r2].session_doc.id = req[r1].session_doc.id
        /\ req[r2].participants >= 1

\* C6: all-or-nothing admission.  A step of a create_booking request that ends
\* it with success appends exactly one booking, for the requested session and
\* participants, and changes no other record; every other step of a request,
\* rejections included, leaves bookings and sessions as they were.
C6_AllOrNothing ==
    [][\A r \in DOMAIN req :
          req'[r] # req[r] =>
             IF req'[r].pc = "done" /\ req'[r].resp.code = 200
             THEN /\ Len(booking') = Len(booking) + 1
                  /\ SubSeq(booking', 1, Len(booking)) = booking
                  /\ booking'[Len(booking')].session_id = req[r].session_id
                  /\ booking'[Len(booking')].participants = req[r].participants
                  /\ booking'[Len(booking')].status = "confirmed"
                  /\ req'[r].resp.id = Len(booking')
                  /\ session' = session
             ELSE booking' = booking /\ session' = session
      ]_vars

\* One request admitted, its booking stored, and one rejected for capacity.
C6_Witness ==
    \E r1, r2 \in DOMAIN req :
        /\ req[r1].pc = "done" /\ req[r1].resp.code = 200
        /\ req[r2].pc = "done" /\ req[r2].resp.code = 400
        /\ Len(booking) = 1
        /\ booking[1].participants = req[r1].participants

\* C7: terminal transitions succeed at most once.  A cancel of a confirmed
\* booking succeeds, and a cancel of the same booking called next, with no
\* other request in between, fails with 404; likewise attend.
C7_TerminalOnce ==
    [][\A b \in BookingIdStrings, a \in Operators :
          /\ (last.op = "cancel" /\ last.arg = b /\ last.resp.code = 200
                /\ cancel_booking(b, a)) => last'.resp.code = 404
          /\ (last.op = "attend" /\ last.arg = b /\ last.resp.code = 200
                /\ attend_booking(b, a)) => last'.resp.code = 404
          /\ (db /\ ObjectIdValid(b) /\ ObjectId(b) \in DOMAIN booking
                /\ booking[ObjectId(b)].status = "confirmed"
                /\ (cancel_booking(b, a) \/ attend_booking(b, a))) =>
                   last'.resp.code = 200
      ]_vars

\* C8: cancelled and attended are terminal.  Once a booking's status is
\* cancelled or attended, no step changes it.
C8_Terminal ==
    [][\A i \in DOMAIN booking :
          booking[i].status \in {"cancelled", "attended"} =>
             booking'[i].status = booking[i].status
      ]_vars

\* C9: unknown booking id.  A cancel or attend by an operator with a
\* well-formed id that matches no stored booking answers 404 and leaves every
\* booking, every session and every session's availability unchanged.
C9_UnknownId ==
    [][\A b \in BookingIdStrings, a \in Operators :
          (/\ db /\ ObjectIdValid(b) /\ ObjectId(b) \notin DOMAIN booking
           /\ last'.op \in {"cancel", "attend"}
           /\ (cancel_booking(b, a) \/ attend_booking(b, a))) =>
              /\ last'.resp = Resp(404, "Booking not found")
              /\ booking' = booking
              /\ session' = session
              /\ \A s \in DOMAIN session :
                    session_availability(session[s])' = session_availability(session[s])
      ]_vars

\* A cancel or attend of an id that no stored booking has was answered 404,
\* with a booking in the store.
C9_Witness ==
    /\ last.op \in {"cancel", "attend"}
    /\ last.resp.code = 404
    /\ ObjectIdValid(last.arg)
    /\ ObjectId(last.arg) \notin DOMAIN booking
    /\ \E i \in DOMAIN booking : booking[i].status = "confirmed"

\* C10: cancel frees capacity.  A cancel that succeeds on booking b raises the
\* available count of b's session (the session under whose id string b is
\* stored) by exactly max(1, b.participants).
C10_CancelFrees ==
    [][\A b \in BookingIdStrings, a \in Operators :
          (last'.op = "cancel" /\ last'.resp.code = 200 /\ cancel_booking(b, a)) =>
             LET doc == booking[ObjectId(b)]
             IN  \A s \in DOMAIN session :
                    doc.session_id = str(s) =>
                       session_availability(session[s]).available'
                          = session_availability(session[s]).available
                              + Max(1, doc.participants)
      ]_vars

\* C11: attend does not touch availability.  An attend call that succeeds, on
\* any booking, leaves the booked and available counts of every session as
\* they were just before the call.
C11_AttendKeeps ==
    [][\A b \in BookingIdStrings, a \in Operators :
          (last'.op = "attend" /\ last'.resp.code = 200 /\ attend_booking(b, a)) =>
             \A s \in DOMAIN session :
                session_availability(session[s])' = session_availability(session[s])
      ]_vars

\* C12: book-then-cancel round trip.  With requests run one at a time: when a
\* create_booking for session S that read availability a has succeeded and the
\* next request is a cancel of its booking that succeeds, S's availability is
\* a again; and the create_booking for S with the same participants that
\* follows that cancel succeeds.
C12_RoundTrip ==
    [][/\ \A a \in Operators, r \in DOMAIN req, s \in DOMAIN session :
            (/\ last.op = "create_booking" /\ last.resp.code = 200
             /\ last.arg = r /\ req[r].session_doc.id = s
             /\ last'.op = "cancel" /\ last'.resp.code = 200
             /\ cancel_booking(str(last.resp.id), a)) =>
                session_availability(session[s]).available'
                   = req[r].avail.available
       /\ \A r \in DOMAIN req :
            (/\ last.op = "cancel" /\ last.resp.code = 200
             /\ req[r].pc # "done" /\ req'[r].pc = "done"
             /\ LET b == booking[ObjectId(last.arg)]
                IN  /\ req'[r].session_doc.id = ObjectId(b.session_id)
                    /\ req'[r].participants = b.participants) =>
                req'[r].resp.code = 200
      ]_vars

\* A session with a booking already in it was filled by a request, the new
\* booking was cancelled, and the next request, for as many participants, was
\* admitted into the freed capacity.
C12_Witness ==
    /\ Len(booking) = 3
    /\ booking[1].status # "cancelled"
    /\ booking[2].status = "cancelled"
    /\ req[1].resp.code = 200 /\ req[1].resp.id = 2
    /\ req[1].participants >= 1
    /\ req[1].avail.available = req[1].participants
    /\ req[2].resp.code = 200 /\ req[2].resp.id = 3
    /\ req[2].participants = req[1].participants
    /\ req[2].avail = req[1].avail

\* C13: participant count is validated at admission.  A create_booking with
\* participants below 1 is rejected as invalid input and nothing is stored, so
\* every stored booking has participants >= 1.
C13_ParticipantsValidated ==
    /\ \A i \in DOMAIN booking : booking[i].participants >= 1
    /\ \A r \in DOMAIN req :
          (req[r].pc = "done" /\ req[r].participants < 1) => req[r].resp.code # 200

\* C14: store failures are not disguised as business rejections.  When the
\* store raises during the session lookup of create_booking (for a session
\* that exists) or during the status update of cancel or attend (for a booking
\* that exists), the request ends with a store failure (5xx), never with
\* "Session not found" or "Invalid booking id", and no state changes.
C14_FailuresSurface ==
    [][/\ \A r \in DOMAIN req, sid \in SessionIdStrings, p \in PValues :
            (/\ req[r].pc = "idle" /\ req'[r].pc = "done"
             /\ ObjectIdValid(sid) /\ ObjectId(sid) \in DOMAIN session
             /\ create_booking_find_raises(r, sid, p)) =>
                /\ req'[r].resp.code \in {500, 503}
                /\ req'[r].resp.detail # "Session not found"
                /\ booking' = booking /\ session' = session
       /\ \A b \in BookingIdStrings, a \in Operators :
            (/\ last'.op \in {"cancel", "attend"}
             /\ ObjectIdValid(b) /\ ObjectId(b) \in DOMAIN booking
             /\ (cancel_booking_raises(b, a) \/ attend_booking_raises(b, a))) =>
                /\ last'.resp.code \in {500, 503}
                /\ last'.resp.detail # "Invalid booking id"
                /\ booking' = booking /\ session' = session
      ]_vars

\* C15: creation status and reachable statuses.  Every booking create_booking
\* stores has status confirmed when it is stored, and in every reachable state
\* every booking's status is confirmed, cancelled or attended: pending is
\* never reached by create, cancel and attend.
C15_Statuses ==
    /\ [](\A i \in DOMAIN booking :
             booking[i].status \in {"confirmed", "cancelled", "attended"})
    /\ [][\A i \in DOMAIN booking' :
             i \notin DOMAIN booking => booking'[i].status = "confirmed"]_vars

\* Two bookings were created; one was cancelled since, the other attended.
C15_Witness ==
    /\ Len(booking) = 2
    /\ \E i, j \in DOMAIN booking :
          booking[i].status = "cancelled" /\ booking[j].status = "attended"

\* C16: operator authorization on lifecycle transitions.  A cancel or attend
\* changes a booking only when its credential is a valid token whose user is
\* stored with role admin, coach or school, and each of the three is accepted;
\* with no credential or an invalid one the answer is 401, with a token whose
\* user is not in the store 401, with a user of another role 403, and in all
\* these cases no booking changes; create_booking is never answered 401 or 403.
C16_Authorization ==
    [][/\ \A b \in BookingIdStrings, a \in Authorizations :
            (/\ last'.op \in {"cancel", "attend"} /\ last'.arg = b
             /\ (cancel_booking(b, a) \/ attend_booking(b, a))) =>
                LET stored == a.kind = "bearer" /\ user[a.sub] # Absent
                    operator == stored /\ user[a.sub].role \in OperatorRoles
                IN  /\ booking' # booking => operator
                    /\ a.kind # "bearer" =>
                          last'.resp.code = 401 /\ booking' = booking
                    /\ (db /\ a.kind = "bearer" /\ ~stored) =>
                          last'.resp.code = 401 /\ booking' = booking
                    /\ (db /\ stored /\ ~operator) =>
                          last'.resp.code = 403 /\ booking' = booking
                    /\ (/\ db /\ operator
                        /\ ObjectIdValid(b) /\ ObjectId(b) \in DOMAIN booking
                        /\ booking[ObjectId(b)].status = "confirmed") =>
                          last'.resp.code = 200 /\ booking' # booking
       /\ \A r \in DOMAIN req :
            (req[r].pc # "done" /\ req'[r].pc = "done") =>
               req'[r].resp.code \notin {401, 403}
      ]_vars

\* A booking was made with no credential, and the cancel or attend of it by a
\* logged-in user who is no operator was answered 403 and left it confirmed.
C16_Witness ==
    /\ last.op \in {"cancel", "attend"}
    /\ last.resp.code = 403
    /\ ObjectIdValid(last.arg) /\ ObjectId(last.arg) \in DOMAIN booking
    /\ booking[ObjectId(last.arg)].status = "confirmed"
    /\ \E r \in DOMAIN req : req[r].resp.code = 200

\* C17: bookings are never deleted and only their status mutates.  No step
\* removes a booking; a step changes of a stored booking nothing but its
\* status and its last-updated timestamp, so session reference, requester and
\* participants stay as created; and the only steps that change a booking are
\* a cancel or an attend of that booking.
C17_OnlyStatusMutates ==
    [][/\ DOMAIN booking \subseteq DOMAIN booking'
       /\ \A i \in DOMAIN booking :
            /\ [booking'[i] EXCEPT !.status = booking[i].status,
                                   !.updated_at = booking[i].updated_at] = booking[i]
            /\ booking'[i] # booking[i] =>
                  /\ last'.op \in {"cancel", "attend"}
                  /\ last'.resp.code = 200
                  /\ ObjectId(last'.arg) = i
       /\ \A r \in DOMAIN req :
            (req[r].pc = "insert" /\ req'[r].pc = "done") =>
               LET doc == booking'[Len(booking')]
               IN  /\ doc.session_id = req[r].session_id
                   /\ doc.user_email = req[r].user_email
                   /\ doc.participants = req[r].participants
      ]_vars

\* A booking for more than one participant was cancelled, a second booking
\* was made after that, and the first still has the session,
\* requester and participants of its request.
C17_Witness ==
    /\ Len(booking) = 2
    /\ booking[1].status = "cancelled"
    /\ booking[1].participants > 1
    /\ booking[1].participants = req[1].participants
    /\ booking[1].user_email = Requester(1)
    /\ booking[1].session_id = req[1].session_id
    /\ last.op = "create_booking" /\ last.arg = 2 /\ last.resp.code = 200

\* C18: serial executions never overbook.  When create_booking, cancel and
\* attend requests run one at a time, with any integer participants, every
\* session's booked count (the sum of max(1, participants) over its bookings
\* that are not cancelled) is at most its capacity, so that booked + available
\* = capacity.
C18_SerialNeverOverbooks ==
    \A s \in DOMAIN session :
        /\ Sum(Floored, Counted(s)) <= session[s].capacity
        /\ Sum(Floored, Counted(s)) + Available(s) = session[s].capacity

\* C19: sessions are independent.  A step of a create_booking request for
\* session S, and a cancel or attend of a booking of session S, leave the
\* booked and available counts of every other session T unchanged, whatever
\* other requests are in flight.
C19_Independent ==
    [][\A t \in DOMAIN session :
          (\/ \E r \in DOMAIN req :
                 req'[r] # req[r] /\ ObjectId(req'[r].session_id) # t
           \/ /\ req' = req
              /\ last'.op \in {"cancel", "attend"}
              /\ ObjectIdValid(last'.arg)
              /\ ObjectId(last'.arg) \in DOMAIN booking
              /\ ObjectId(booking[ObjectId(last'.arg)].session_id) # t) =>
             \/ booking' = booking /\ session' = session /\ db' = db
             \/ session_availability(session[t])' = session_availability(session[t])
      ]_vars

\* A request for one session was admitted and a booking of that session was
\* cancelled, while another session holds a booking that counts.
C19_Witness ==
    \E s, t \in DOMAIN session :
        /\ s # t
        /\ \E r \in DOMAIN req :
              req[r].resp.code = 200 /\ req[r].session_doc.id = s
        /\ last.op = "cancel" /\ last.resp.code = 200
        /\ booking[ObjectId(last.arg)].session_id = str(s)
        /\ Counted(t) # {}

\* C20: no self-granted operator rights.  A client that starts with no
\* credential and no user record, using register, login, create booking and
\* list and then the credentials it obtained that way, never causes a booking
\* to become cancelled or attended: while the client is the only one acting,
\* every booking stays confirmed.
C20_NoSelfGrant ==
    \A i \in DOMAIN booking : booking[i].status = "confirmed"

====
